---- MODULE Spec2Model ----
(***************************************************************************)
(* Model of src/islands/App.tsx (the current App, lines 218-502): a Preact *)
(* component holding five state hooks, a mount effect that loads and sorts *)
(* the dataset, an effect that rebuilds bandGroups from the rendered       *)
(* filteredEpisodes, and the StatsPage child.                              *)
(*                                                                         *)
(* Strings are sequences of one-character strings, so that toLowerCase,    *)
(* includes and localeCompare are computed rather than assumed.  An object *)
(* used as a dictionary (Record<string, T>) is the sequence of its entries *)
(* in the order Object.entries enumerates them.  Episode objects are told  *)
(* apart by their position in the array that holds them, which is what     *)
(* indexOf (reference equality) does for the objects of a parsed JSON      *)
(* array.  The title field is only ever printed and is left out.           *)
(***************************************************************************)
EXTENDS Integers, Sequences, FiniteSets, TLC

\* Largest dataset (number of episode records in final.json) explored.
MaxEpisodes == 3

\* The episode records a dataset is made of.  Repeating a record in a
\* dataset gives two distinct objects with the same id.  published is the
\* number new Date(published).getTime() gives for a valid date.
Pool ==
  { [id |-> 1, published |-> 2, band |-> <<"a">>],
    [id |-> 2, published |-> 2, band |-> <<"B">>],
    [id |-> 1, published |-> 3, band |-> <<"B">>],
    [id |-> 3, published |-> 3, band |-> <<"<", "a", ">">>],
    [id |-> 4, published |-> 1, band |-> <<>>],
    [id |-> 5, published |-> 1, band |-> <<"1">>] }

\* The texts typed into the search box.
Terms == { <<>>, <<"b">>, <<"A">> }

SortModes == {"date", "band", "count"}
Tabs == {"tracker", "stats"}

RECURSIVE SeqsUpTo(_, _)
SeqsUpTo(S, n) ==
  IF n = 0 THEN { <<>> }
  ELSE LET shorter == SeqsUpTo(S, n - 1)
       IN  shorter \cup { Append(s, x) : s \in shorter, x \in S }

Datasets == SeqsUpTo(Pool, MaxEpisodes)

(***************************************************************************)
(* String primitives of the JavaScript runtime.                            *)
(***************************************************************************)
LowerChar(c) ==
  CASE c = "A" -> "a"
    [] c = "B" -> "b"
    [] OTHER   -> c

toLowerCase(s) == [i \in 1..Len(s) |-> LowerChar(s[i])]

\* String.prototype.includes: t occurs in s as a contiguous substring.
includes(s, t) ==
  \E i \in 0..(Len(s) - Len(t)) : SubSeq(s, i + 1, i + Len(t)) = t

\* Collation weights of String.prototype.localeCompare (root collation):
\* digits before letters, letters by alphabet, and only when two strings
\* are equal letter for letter does lower case go before upper case.
PrimaryWeight(c) ==
  CASE c = "<" -> 1
    [] c = ">" -> 2
    [] c = "1" -> 3
    [] LowerChar(c) = "a" -> 4
    [] OTHER -> 5

CaseWeight(c) == IF LowerChar(c) = c THEN 0 ELSE 1

RECURSIVE LexCompare(_, _)
\* Lexicographic comparison of two sequences of integers: -1, 0 or 1.
LexCompare(u, v) ==
  IF u = <<>> THEN (IF v = <<>> THEN 0 ELSE -1)
  ELSE IF v = <<>> THEN 1
  ELSE IF Head(u) < Head(v) THEN -1
  ELSE IF Head(u) > Head(v) THEN 1
  ELSE LexCompare(Tail(u), Tail(v))

localeCompare(a, b) ==
  LET p == LexCompare([i \in 1..Len(a) |-> PrimaryWeight(a[i])],
                      [i \in 1..Len(b) |-> PrimaryWeight(b[i])])
  IN  IF p # 0 THEN p
      ELSE LexCompare([i \in 1..Len(a) |-> CaseWeight(a[i])],
                      [i \in 1..Len(b) |-> CaseWeight(b[i])])

\* The test of lines 348 and 381: the band is missing, empty or marked.
IsUnknownBand(band) ==
  band = <<>> \/ includes(band, <<"<">>) \/ includes(band, <<">">>)

\* The test of lines 355-357: neither '<' nor '>' occurs in the band.
IsCountable(band) ==
  ~ (includes(band, <<"<">>) \/ includes(band, <<">">>))

(***************************************************************************)
(* Objects used as dictionaries.                                           *)
(***************************************************************************)
\* A property name that is a canonical array index ("1", "11", ...): such
\* keys are enumerated first, in ascending numeric order.
IsIndexKey(k) == k # <<>> /\ \A i \in 1..Len(k) : k[i] = "1"

RECURSIVE IndexValue(_)
IndexValue(k) == IF k = <<>> THEN 0 ELSE 10 * IndexValue(SubSeq(k, 1, Len(k) - 1)) + 1

HasKey(obj, k) == \E i \in 1..Len(obj) : obj[i].key = k

Lookup(obj, k) == obj[CHOOSE i \in 1..Len(obj) : obj[i].key = k].val

\* Where a new own property k lands in the enumeration order of obj.
InsertAt(obj, k) ==
  IF IsIndexKey(k)
  THEN Cardinality({ i \in 1..Len(obj) :
                       IsIndexKey(obj[i].key) /\ IndexValue(obj[i].key) < IndexValue(k) }) + 1
  ELSE Len(obj) + 1

\* obj[k] = v
SetKey(obj, k, v) ==
  IF HasKey(obj, k)
  THEN [i \in 1..Len(obj) |-> IF obj[i].key = k THEN [key |-> k, val |-> v] ELSE obj[i]]
  ELSE LET p == InsertAt(obj, k)
       IN  SubSeq(obj, 1, p - 1) \o << [key |-> k, val |-> v] >> \o SubSeq(obj, p, Len(obj))

\* The number a/b*100 of lines 297 and 365, kept exact: 0/0 is NaN.
Percentage(a, b) ==
  IF b = 0
  THEN [kind |-> IF a = 0 THEN "NaN" ELSE "Infinity", num |-> 0, den |-> 1]
  ELSE [kind |-> "finite", num |-> a * 100, den |-> b]

(***************************************************************************)
(* The values an App render derives from its state.                        *)
(***************************************************************************)
RECURSIVE InsertByDate_Ascending(_, _)
\* The load sort with the operands of the comparator exchanged.
InsertByDate_Ascending(sorted, e) ==
  IF sorted = <<>> THEN << e >>
  ELSE IF Head(sorted).published - e.published > 0
       THEN << e >> \o sorted
       ELSE << Head(sorted) >> \o InsertByDate_Ascending(Tail(sorted), e)

RECURSIVE InsertByDate(_, _)
\* Insert e behind every element the comparator of lines 334-336 does not
\* put after it (Array.prototype.sort is stable).
InsertByDate(sorted, e) ==
  IF sorted = <<>> THEN << e >>
  ELSE IF e.published - Head(sorted).published > 0
       THEN << e >> \o sorted
       ELSE << Head(sorted) >> \o InsertByDate(Tail(sorted), e)

RECURSIVE sortedEpisodes(_)
sortedEpisodes(data) ==
  IF data = <<>> THEN <<>>
  ELSE InsertByDate(sortedEpisodes(SubSeq(data, 1, Len(data) - 1)), data[Len(data)])

\* episodes.findIndex(e => e.id === id), 0 for "not found"
findIndex(eps, id) ==
  IF \E i \in 1..Len(eps) : eps[i].id = id
  THEN CHOOSE i \in 1..Len(eps) :
         eps[i].id = id /\ \A j \in 1..(i - 1) : eps[j].id # id
  ELSE 0

\* The search callback without the toLowerCase of the term.
MatchesTerm_TermAsTyped(episode, term) ==
  includes(toLowerCase(episode.band), term)

\* The callback of lines 340-341.
MatchesTerm(episode, term) ==
  includes(toLowerCase(episode.band), toLowerCase(term))

\* The duplicate test with its comparison inverted.
IsFirstWithId_Inverted(eps, i) == findIndex(eps, eps[i].id) # i

\* The callback of lines 342-345 for the object at position i of eps:
\* indexOf finds an object at its own position.
IsFirstWithId(eps, i) == findIndex(eps, eps[i].id) = i

RECURSIVE MatchedFrom(_, _, _)
\* Array.prototype.filter of lines 340-341 over positions i, i+1, ... of
\* eps, as the positions kept.
MatchedFrom(eps, term, i) ==
  IF i > Len(eps) THEN <<>>
  ELSE (IF MatchesTerm(eps[i], term) THEN << i >> ELSE <<>>)
         \o MatchedFrom(eps, term, i + 1)

\* Lines 340-345, as the positions in eps of the episodes kept: the second
\* filter looks each survivor of the first up in the whole of eps.
filteredPositions(eps, term) ==
  SelectSeq(MatchedFrom(eps, term, 1), LAMBDA i : IsFirstWithId(eps, i))

filterByBand(eps, term) ==
  LET pos == filteredPositions(eps, term)
  IN  [k \in 1..Len(pos) |-> eps[pos[k]]]

RECURSIVE bandCountsOf(_)
\* Lines 347-353 (and 285-290, the same reduction in StatsPage).
bandCountsOf(eps) ==
  IF eps = <<>> THEN <<>>
  ELSE LET acc  == bandCountsOf(SubSeq(eps, 1, Len(eps) - 1))
           band == eps[Len(eps)].band
       IN  IF IsUnknownBand(band) THEN acc
           ELSE SetKey(acc, band, (IF HasKey(acc, band) THEN Lookup(acc, band) ELSE 0) + 1)

totalCountableEpisodesOf(eps) ==
  Cardinality({ i \in 1..Len(eps) : IsCountable(eps[i].band) })

\* The comparator with the counts subtracted the other way round.
CompareEntries_CountAscending(a, b, mode) ==
  IF mode = "count" THEN a.val - b.val
  ELSE IF mode = "date" THEN 0
  ELSE localeCompare(a.key, b.key)

\* The comparator of lines 359-363.
CompareEntries(a, b, mode) ==
  IF mode = "count" THEN b.val - a.val
  ELSE IF mode = "date" THEN 0
  ELSE localeCompare(a.key, b.key)

RECURSIVE InsertEntry(_, _, _)
InsertEntry(sorted, e, mode) ==
  IF sorted = <<>> THEN << e >>
  ELSE IF CompareEntries(Head(sorted), e, mode) > 0
       THEN << e >> \o sorted
       ELSE << Head(sorted) >> \o InsertEntry(Tail(sorted), e, mode)

RECURSIVE SortEntries(_, _)
SortEntries(entries, mode) ==
  IF entries = <<>> THEN <<>>
  ELSE InsertEntry(SortEntries(SubSeq(entries, 1, Len(entries) - 1), mode),
                   entries[Len(entries)], mode)

sortedBandsOf(eps, mode) == SortEntries(bandCountsOf(eps), mode)

knownBandsPercentageOf(eps) ==
  Percentage(Len(bandCountsOf(eps)), totalCountableEpisodesOf(eps))

UnknownKey == <<"U", "n", "k", "n", "o", "w", "n">>

RECURSIVE groupByBand_Overwrite(_)
\* The grouping with the bucket assigned instead of pushed to.
groupByBand_Overwrite(filtered) ==
  IF filtered = <<>> THEN <<>>
  ELSE LET groups == groupByBand_Overwrite(SubSeq(filtered, 1, Len(filtered) - 1))
           episode == filtered[Len(filtered)]
           k == IF IsUnknownBand(episode.band) THEN UnknownKey ELSE episode.band
       IN  SetKey(groups, k, << episode >>)

RECURSIVE groupByBand(_)
\* Lines 379-388.
groupByBand(filtered) ==
  IF filtered = <<>> THEN <<>>
  ELSE LET groups == groupByBand(SubSeq(filtered, 1, Len(filtered) - 1))
           episode == filtered[Len(filtered)]
           k == IF IsUnknownBand(episode.band) THEN UnknownKey ELSE episode.band
       IN  SetKey(groups, k,
                  Append(IF HasKey(groups, k) THEN Lookup(groups, k) ELSE <<>>, episode))

(***************************************************************************)
(* StatsPage.                                                              *)
(***************************************************************************)
Undefined == [key |-> <<"undefined">>, val |-> 0]

\* The statistics with the least-mentioned band read at the wrong end.
statsOf_LeastFromFront(eps) ==
  LET sorted == SortEntries(bandCountsOf(eps), "count")
  IN  [ mostMentionedBand  |-> IF sorted = <<>> THEN Undefined ELSE sorted[1],
        leastMentionedBand |-> IF sorted = <<>> THEN Undefined ELSE sorted[1],
        newBandPercentage  |->
          Percentage(Cardinality({ i \in 1..Len(sorted) : sorted[i].val = 1 }), Len(sorted)) ]

statsOf(eps) ==
  LET sorted == SortEntries(bandCountsOf(eps), "count")
  IN  [ mostMentionedBand  |-> IF sorted = <<>> THEN Undefined ELSE sorted[1],
        leastMentionedBand |-> IF sorted = <<>> THEN Undefined ELSE sorted[Len(sorted)],
        newBandPercentage  |->
          Percentage(Cardinality({ i \in 1..Len(sorted) : sorted[i].val = 1 }), Len(sorted)) ]

\* Lines 314-315 read element 0 of mostMentionedBand and leastMentionedBand.
StatsPageThrows(eps) ==
  statsOf(eps).mostMentionedBand = Undefined \/ statsOf(eps).leastMentionedBand = Undefined

(***************************************************************************)
(* The component.                                                          *)
(***************************************************************************)
VARIABLES
  DATA,              \* the imported dataset (final.json)
  episodes,          \* useState, line 325
  searchTerm,        \* useState, line 326
  sortBy,            \* useState, line 327
  activeTab,         \* useState, line 328
  bandGroups,        \* useState, line 329
  filteredEpisodes,  \* the constant of lines 340-345 in the last render's closure
  domTab,            \* the tab the document shows: "none" before the first render
  pending,           \* effects scheduled by the last render and not yet run
  pc                 \* "render": a render is queued; "rendered": a render has
                     \* just committed; "effects": part of its effects have run;
                     \* "idle": a render committed and scheduled nothing;
                     \* "crashed": a render threw; no error boundary
                     \* catches it and nothing further is modelled

vars == << DATA, episodes, searchTerm, sortBy, activeTab, bandGroups,
           filteredEpisodes, domTab, pending, pc >>

Init ==
  /\ DATA \in Datasets
  /\ episodes = <<>>
  /\ searchTerm = <<>>
  /\ sortBy = "date"
  /\ activeTab = "tracker"
  /\ bandGroups = <<>>
  /\ filteredEpisodes = <<>>
  /\ domTab = "none"
  /\ pending = <<>>
  /\ pc = "render"

\* Line 487: bandGroups[band].map of a band that has no group.
ListThrows ==
  /\ sortBy # "date"
  /\ \E i \in 1..Len(sortedBandsOf(episodes, sortBy)) :
       ~ HasKey(bandGroups, sortedBandsOf(episodes, sortBy)[i].key)

RenderThrows ==
  \/ activeTab = "stats" /\ StatsPageThrows(episodes)
  \/ activeTab = "tracker" /\ ListThrows

\* The effects a render schedules.  The effect of lines 332-338 has no
\* dependency and runs after the first render only.  The dependency of the
\* effect of lines 378-390 is filteredEpisodes, which lines 340-345 build
\* as a new array in every render: it is never the object of the render
\* before, whatever it holds, so the effect is scheduled by every render.
ScheduledEffects(first) ==
  (IF first THEN << "load" >> ELSE <<>>) \o << "groups" >>

\* One run of the App function (lines 324-502) and of its children.
Render ==
  /\ pc = "render"
  /\ IF RenderThrows
     THEN /\ pc' = "crashed"
          /\ UNCHANGED << filteredEpisodes, domTab, pending >>
     ELSE /\ pc' = IF ScheduledEffects(domTab = "none") = <<>> THEN "idle" ELSE "rendered"
          /\ filteredEpisodes' = filterByBand(episodes, searchTerm)
          /\ domTab' = activeTab
          /\ pending' = ScheduledEffects(domTab = "none")
  /\ UNCHANGED << DATA, episodes, searchTerm, sortBy, activeTab, bandGroups >>

\* Lines 332-338, run once after the first render.
LoadEffect ==
  /\ pc = "rendered"
  /\ pending # <<>> /\ Head(pending) = "load"
  /\ episodes' = sortedEpisodes(DATA)
  /\ pending' = Tail(pending)
  /\ pc' = "effects"
  /\ UNCHANGED << DATA, searchTerm, sortBy, activeTab, bandGroups, filteredEpisodes, domTab >>

\* Lines 378-390.  groups is a new object (line 379), never the object
\* bandGroups holds, so setBandGroups queues a render whatever it holds.
GroupsEffect ==
  /\ pc \in {"rendered", "effects"}
  /\ pending # <<>> /\ Head(pending) = "groups"
  /\ bandGroups' = groupByBand(filteredEpisodes)
  /\ pending' = Tail(pending)
  /\ pc' = "render"
  /\ UNCHANGED << DATA, episodes, searchTerm, sortBy, activeTab, filteredEpisodes, domTab >>

\* Lines 400 and 408.  An event handler runs between the effects of one
\* render and the next render: pending effects are flushed before a
\* component renders again, so an earlier event changes nothing else.
SetActiveTab(tab) ==
  /\ pc \in {"render", "idle"} /\ domTab # "none"
  /\ activeTab' = tab
  /\ pc' = IF tab # activeTab THEN "render" ELSE pc
  /\ UNCHANGED << DATA, episodes, searchTerm, sortBy, bandGroups, filteredEpisodes,
                  domTab, pending >>

\* Line 425: the search box exists while the tracker tab is shown.
SetSearchTerm(term) ==
  /\ pc \in {"render", "idle"} /\ domTab = "tracker"
  /\ term # searchTerm
  /\ searchTerm' = term
  /\ pc' = "render"
  /\ UNCHANGED << DATA, episodes, sortBy, activeTab, bandGroups, filteredEpisodes,
                  domTab, pending >>

\* Line 433.
SetSortBy(sort) ==
  /\ pc \in {"render", "idle"} /\ domTab = "tracker"
  /\ sortBy' = sort
  /\ pc' = IF sort # sortBy THEN "render" ELSE pc
  /\ UNCHANGED << DATA, episodes, searchTerm, activeTab, bandGroups, filteredEpisodes,
                  domTab, pending >>

Next ==
  \/ Render
  \/ LoadEffect
  \/ GroupsEffect
  \/ \E tab \in Tabs : SetActiveTab(tab)
  \/ \E term \in Terms : SetSearchTerm(term)
  \/ \E sort \in SortModes : SetSortBy(sort)

Spec == Init /\ [][Next]_vars

\* The scheduler runs every queued render and every scheduled effect; the
\* user need not do anything.
FairSpec ==
  Spec /\ WF_vars(Render) /\ WF_vars(LoadEffect) /\ WF_vars(GroupsEffect)

TypeOK ==
  /\ DATA \in Datasets
  /\ sortBy \in SortModes
  /\ activeTab \in Tabs
  /\ searchTerm \in Terms
  /\ pc \in {"render", "rendered", "effects", "idle", "crashed"}

(***************************************************************************)
(* Properties.                                                             *)
(***************************************************************************)
\* A render has just committed: the state hooks are the values it read.
Rendered == pc = "rendered"

\* The mount effect has run: episodes holds the loaded dataset.
Loaded == domTab # "none" /\ (pending = <<>> \/ Head(pending) # "load")

\* C1: whenever the tracker tab is rendered, the knownPercentage of the
\* progress indicator is a number between 0 and 100, and it is 0 when no
\* episode is countable.
C1_KnownPercentageInRange ==
  (Rendered /\ activeTab = "tracker") =>
    LET p == knownBandsPercentageOf(episodes)
    IN  /\ p.kind = "finite"
        /\ 0 <= p.num /\ p.num <= 100 * p.den
        /\ (totalCountableEpisodesOf(episodes) = 0 => p.num = 0)

\* C2: a render of the stats tab over a list without a known band does not
\* fail: both superlatives are undefined and the one-off percentage is a
\* defined zero.
C2_StatsOfNoKnownBandRenders ==
  (pc \in {"rendered", "crashed"} /\ activeTab = "stats" /\ bandCountsOf(episodes) = <<>>) =>
    /\ pc = "rendered"
    /\ statsOf(episodes).mostMentionedBand = Undefined
    /\ statsOf(episodes).leastMentionedBand = Undefined
    /\ statsOf(episodes).newBandPercentage.kind = "finite"
    /\ statsOf(episodes).newBandPercentage.num = 0

\* C3: in every rendered state the bandGroups the render read is the
\* grouping of the episodes that match the current search term.
C3_RenderedGroupsAreCurrent ==
  Rendered => bandGroups = groupByBand(filterByBand(episodes, searchTerm))

\* The known bands that occur in a list of episodes.
KnownBandsOf(eps) ==
  { eps[i].band : i \in { j \in 1..Len(eps) : ~ IsUnknownBand(eps[j].band) } }

\* The band entries the list of lines 456-497 shows in band and count mode.
DisplayedBands == { sortedBandsOf(episodes, sortBy)[i].key :
                      i \in 1..Len(sortedBandsOf(episodes, sortBy)) }

\* C5: in band and count mode a band entry is displayed exactly when some
\* episode matching the current search term belongs to that band.
C5_ListedBandsAreTheMatchingOnes ==
  (Rendered /\ activeTab = "tracker" /\ sortBy # "date") =>
    DisplayedBands = KnownBandsOf(filterByBand(episodes, searchTerm))

(***************************************************************************)
(* Vocabulary of the properties of the pure derivations.                   *)
(***************************************************************************)
BucketKey(band) == IF IsUnknownBand(band) THEN UnknownKey ELSE band

\* The places (bucket, index) of a grouping.
Slots(groups) ==
  UNION { { << b, j >> : j \in 1..Len(groups[b].val) } : b \in 1..Len(groups) }

Occurrences(seq, x) == Cardinality({ i \in 1..Len(seq) : seq[i] = x })

IsPermutationOf(s, t) ==
  /\ Len(s) = Len(t)
  /\ \A i \in 1..Len(t) : Occurrences(s, t[i]) = Occurrences(t, t[i])

\* The positions of eps whose band contains the term, case-insensitively.
MatchingPositions(eps, term) ==
  { i \in 1..Len(eps) : includes(toLowerCase(eps[i].band), toLowerCase(term)) }

\* Those of them that no earlier position of eps shares its id with.
KeptPositions(eps, term) ==
  { i \in MatchingPositions(eps, term) : \A j \in 1..(i - 1) : eps[j].id # eps[i].id }

\* list is made of the elements of eps at the positions P, in their order.
IsSelection(list, eps, P) ==
  /\ Len(list) = Cardinality(P)
  /\ \A i \in P : list[Cardinality({ j \in P : j <= i })] = eps[i]

\* C4 (as claimed): for every term, each episode that matches the term is
\* in the bucket of its band, every bucket holds matching episodes only,
\* and no episode is in two places.
C4_BucketsPartitionMatching ==
  \A term \in Terms :
    LET groups == groupByBand(filterByBand(episodes, term))
    IN  /\ \A i \in MatchingPositions(episodes, term) :
             \E s \in Slots(groups) :
               /\ groups[s[1]].val[s[2]] = episodes[i]
               /\ groups[s[1]].key = BucketKey(episodes[i].band)
        /\ \A s \in Slots(groups) :
             includes(toLowerCase(groups[s[1]].val[s[2]].band), toLowerCase(term))
        /\ \A s, t \in Slots(groups) :
             s # t => groups[s[1]].val[s[2]].id # groups[t[1]].val[t[2]].id

\* C4 (amended): for every term, the buckets partition the episodes that
\* match the term and are the first of the list with their id: each is in
\* exactly one place, in the bucket of its band, and nothing else is in a
\* bucket.
C4_BucketsPartitionFiltered ==
  \A term \in Terms :
    LET groups == groupByBand(filterByBand(episodes, term))
        kept   == KeptPositions(episodes, term)
    IN  /\ \A b, c \in 1..Len(groups) : b # c => groups[b].key # groups[c].key
        /\ Cardinality(Slots(groups)) = Cardinality(kept)
        /\ \A i \in kept :
             \E s \in Slots(groups) :
               /\ groups[s[1]].val[s[2]] = episodes[i]
               /\ groups[s[1]].key = BucketKey(episodes[i].band)
        /\ \A s \in Slots(groups) :
             /\ \E i \in kept : groups[s[1]].val[s[2]] = episodes[i]
             /\ groups[s[1]].key = BucketKey(groups[s[1]].val[s[2]].band)

\* The bandGroups effect has grouped a filtered list that left out a
\* matching episode with a repeated id, into an Unknown and a band bucket.
C4_Witness ==
  /\ Loaded /\ pc = "render"
  /\ filteredEpisodes = filterByBand(episodes, searchTerm)
  /\ bandGroups = groupByBand(filteredEpisodes)
  /\ Len(bandGroups) >= 2 /\ HasKey(bandGroups, UnknownKey)
  /\ KeptPositions(episodes, searchTerm) # MatchingPositions(episodes, searchTerm)

\* C6: the band list of mode 'band' is non-decreasing by name in the order
\* of localeCompare, the band list of mode 'count' is non-increasing by
\* count, and both are permutations of the entries of bandCounts.
C6_SortedBandsAreOrdered ==
  LET byBand  == sortedBandsOf(episodes, "band")
      byCount == sortedBandsOf(episodes, "count")
  IN  /\ \A i \in 1..(Len(byBand) - 1) :
           localeCompare(byBand[i].key, byBand[i + 1].key) <= 0
      /\ \A i \in 1..(Len(byCount) - 1) : byCount[i].val >= byCount[i + 1].val
      /\ IsPermutationOf(byBand, bandCountsOf(episodes))
      /\ IsPermutationOf(byCount, bandCountsOf(episodes))

\* A band-mode or count-mode render over several bands that neither order
\* leaves where the count mapping enumerates them.
C6_Witness ==
  /\ Rendered /\ activeTab = "tracker" /\ sortBy \in {"band", "count"}
  /\ Len(bandCountsOf(episodes)) >= 2
  /\ sortedBandsOf(episodes, "band") # bandCountsOf(episodes)
  /\ sortedBandsOf(episodes, "count") # bandCountsOf(episodes)

\* C7 (as claimed): for every term the filtered list is the episodes whose
\* band contains the term, case-insensitively, in their order; with the
\* empty term it is the whole list.
C7_FilterKeepsAllMatching ==
  /\ \A term \in Terms :
       IsSelection(filterByBand(episodes, term), episodes, MatchingPositions(episodes, term))
  /\ filterByBand(episodes, <<>>) = episodes
  /\ Rendered =>
       IsSelection(filteredEpisodes, episodes, MatchingPositions(episodes, searchTerm))

\* C7 (amended): for every term the filtered list is the episodes whose
\* band contains the term, case-insensitively, and that are the first of
\* the list with their id, in their order; with the empty term it is the
\* first episode of every id.
C7_FilterKeepsFirstMatching ==
  /\ \A term \in Terms :
       IsSelection(filterByBand(episodes, term), episodes, KeptPositions(episodes, term))
  /\ IsSelection(filterByBand(episodes, <<>>), episodes,
                 { i \in 1..Len(episodes) : \A j \in 1..(i - 1) : episodes[j].id # episodes[i].id })
  /\ Rendered =>
       IsSelection(filteredEpisodes, episodes, KeptPositions(episodes, searchTerm))

\* A render whose term, in another case than the band's, keeps one episode,
\* rejects another and drops a third as a repeated id.
C7_Witness ==
  /\ Rendered /\ Loaded
  /\ searchTerm # <<>>
  /\ filteredEpisodes # <<>>
  /\ \E i \in 1..Len(filteredEpisodes) :
       ~ includes(filteredEpisodes[i].band, searchTerm)
  /\ MatchingPositions(episodes, searchTerm) # 1..Len(episodes)
  /\ KeptPositions(episodes, searchTerm) # MatchingPositions(episodes, searchTerm)

\* The counts of a band-to-count mapping.
CountsOf(counts) == { counts[i].val : i \in 1..Len(counts) }

MaxCount(counts) == CHOOSE v \in CountsOf(counts) : \A w \in CountsOf(counts) : w <= v

MinCount(counts) == CHOOSE v \in CountsOf(counts) : \A w \in CountsOf(counts) : v <= w

\* The position in eps of the first episode of a band.
FirstSeen(eps, band) ==
  CHOOSE i \in 1..Len(eps) :
    eps[i].band = band /\ \A j \in 1..(i - 1) : eps[j].band # band

\* C8 (as claimed): on a rendered stats tab the most-mentioned band has the maximum count and the
\* least-mentioned band the minimum count, and each is, among the bands
\* with that count, the one first encountered in the episode list.
C8_SuperlativesTieToFirstSeen ==
  LET counts == bandCountsOf(episodes)
      most   == statsOf(episodes).mostMentionedBand
      least  == statsOf(episodes).leastMentionedBand
  IN  (Rendered /\ activeTab = "stats" /\ counts # <<>>) =>
        /\ most.val = MaxCount(counts)
        /\ least.val = MinCount(counts)
        /\ \A i \in 1..Len(counts) :
             counts[i].val = most.val =>
               FirstSeen(episodes, most.key) <= FirstSeen(episodes, counts[i].key)
        /\ \A i \in 1..Len(counts) :
             counts[i].val = least.val =>
               FirstSeen(episodes, least.key) <= FirstSeen(episodes, counts[i].key)

\* C8 (amended): on a rendered stats tab the most-mentioned band has the maximum count and is the
\* first band with it in the enumeration order of the count mapping; the
\* least-mentioned band has the minimum count and is the last band with it
\* in that order.  The mapping enumerates the band names that are array
\* indices first, in ascending numeric order, and then the other bands in
\* the order of their first episode.
C8_SuperlativesTieByEnumeration ==
  LET counts == bandCountsOf(episodes)
      most   == statsOf(episodes).mostMentionedBand
      least  == statsOf(episodes).leastMentionedBand
  IN  (Rendered /\ activeTab = "stats" /\ counts # <<>>) =>
        /\ most.val = MaxCount(counts)
        /\ least.val = MinCount(counts)
        /\ \E i \in 1..Len(counts) :
             /\ counts[i] = most
             /\ \A j \in 1..(i - 1) : counts[j].val # most.val
        /\ \E i \in 1..Len(counts) :
             /\ counts[i] = least
             /\ \A j \in (i + 1)..Len(counts) : counts[j].val # least.val
        /\ \A i, j \in 1..Len(counts) :
             i < j =>
               IF IsIndexKey(counts[i].key)
               THEN IsIndexKey(counts[j].key) =>
                      IndexValue(counts[i].key) < IndexValue(counts[j].key)
               ELSE /\ ~ IsIndexKey(counts[j].key)
                    /\ FirstSeen(episodes, counts[i].key) < FirstSeen(episodes, counts[j].key)

\* The stats tab has rendered over bands that tie for the minimum count.
C8_Witness ==
  /\ Rendered /\ activeTab = "stats"
  /\ Cardinality({ i \in 1..Len(bandCountsOf(episodes)) :
                     bandCountsOf(episodes)[i].val = MinCount(bandCountsOf(episodes)) }) >= 2
  /\ statsOf(episodes).leastMentionedBand # statsOf(episodes).mostMentionedBand

NonIncreasingByDate(eps) ==
  \A i \in 1..(Len(eps) - 1) : eps[i].published >= eps[i + 1].published

RECURSIVE IsSubsequenceOf(_, _)
\* sub is eps with some elements left out.
IsSubsequenceOf(sub, eps) ==
  IF sub = <<>> THEN TRUE
  ELSE IF eps = <<>> THEN FALSE
  ELSE IF Head(sub) = Head(eps) THEN IsSubsequenceOf(Tail(sub), Tail(eps))
  ELSE IsSubsequenceOf(sub, Tail(eps))

\* C9: once the dataset is loaded, the episode list is a permutation of it
\* in non-increasing order of publication, in every later state; and the
\* list a date-mode render shows is a sub-sequence of it, in its order,
\* made of episodes that match the search term.
C9_EpisodesStayNewestFirst ==
  Loaded =>
    /\ IsPermutationOf(episodes, DATA)
    /\ NonIncreasingByDate(episodes)
    /\ (Rendered /\ activeTab = "tracker" /\ sortBy = "date") =>
         /\ IsSubsequenceOf(filteredEpisodes, episodes)
         /\ \A k \in 1..Len(filteredEpisodes) :
              includes(toLowerCase(filteredEpisodes[k].band), toLowerCase(searchTerm))

\* A date-mode render of a filtered list, over a dataset that was not in
\* order of publication.
C9_Witness ==
  /\ Loaded /\ Rendered /\ activeTab = "tracker" /\ sortBy = "date"
  /\ episodes # DATA
  /\ Len(filteredEpisodes) >= 2
  /\ Len(filteredEpisodes) < Len(episodes)
  /\ bandGroups # <<>>

\* C10: for every term, filtering the filtered list again with the same
\* term gives the filtered list.
C10_FilterIsIdempotent ==
  \A term \in Terms :
    filterByBand(filterByBand(episodes, term), term) = filterByBand(episodes, term)

\* A render filtered a list with a repeated id and kept only part of it.
C10_Witness ==
  /\ Rendered /\ Loaded
  /\ filteredEpisodes # <<>>
  /\ \E i, j \in 1..Len(episodes) :
       /\ i < j /\ episodes[i].id = episodes[j].id
       /\ MatchingPositions(episodes, searchTerm) \cap {i, j} # {}
  /\ Len(filteredEpisodes) < Cardinality(MatchingPositions(episodes, searchTerm))

\* C11: whenever the tracker tab is rendered in band or count mode, every
\* band entry of the list has a group in bandGroups, so that the render
\* does not read the episodes of a missing group.
C11_ListedBandsHaveGroups ==
  (pc \in {"rendered", "crashed"} /\ activeTab = "tracker" /\ sortBy # "date") =>
    /\ pc = "rendered"
    /\ \A i \in 1..Len(sortedBandsOf(episodes, sortBy)) :
         HasKey(bandGroups, sortedBandsOf(episodes, sortBy)[i].key)

\* No render is queued and no effect is scheduled.
Quiescent == pc = "idle" /\ pending = <<>>

\* A step of one of the handlers of the controls.
UserEvent ==
  \/ \E tab \in Tabs : SetActiveTab(tab)
  \/ \E term \in Terms : SetSearchTerm(term)
  \/ \E sort \in SortModes : SetSortBy(sort)

\* C12: when the dataset has been loaded and from some event on the user
\* does nothing more, the cycle of renders and effects comes to rest after
\* finitely many renders (a render that threw counts as rest).
C12_CycleComesToRest ==
  <>[][~ UserEvent]_vars => <>(Loaded /\ (Quiescent \/ pc = "crashed"))
====
